---- MODULE Spec2Model ----
(***************************************************************************)
(* The asynchronous delivery core of tglog (src/tglog/tglog.go): caller    *)
(* goroutines running Logger.log and Logger.Close, the worker goroutine    *)
(* running Logger.processQueue, the buffered channel msgQueue, the         *)
(* WaitGroup wg, the mutex mu and the closed flag.                         *)
(*                                                                         *)
(* Spec and FairSpec are the concurrent program.  ApiSpec takes one logger *)
(* from New through log calls made one at a time, with the Config, the     *)
(* formatted text and the request spelled out.                             *)
(*                                                                         *)
(* A message is identified by the number of its log call (1, 2, ...); the  *)
(* history variables calls, enq, closeRet, chanCloses and drains          *)
(* record what happened and never influence the program's steps.           *)
(***************************************************************************)
EXTENDS Integers, Sequences, FiniteSets, TLC

\* ---- LogLevel (tglog.go:17-28) ----
Debug == 0
Info == 1
Warning == 2
Error == 3
Fatal == 4
LogLevels == Debug..Fatal

\* ---- bounds of the model ----
NumThreads == 2     \* caller goroutines
MaxCalls == 2       \* log calls begun in one behaviour
MaxCloses == 2      \* Close calls begun in one behaviour
QueueCap == 1       \* capacity of msgQueue; make(chan message, 100) in New, scaled down

Threads == 1..NumThreads
CallLevels == {Debug, Info, Fatal}   \* levels the callers log at
MinLevels == {Info, Warning}         \* values of Config.MinLevel (Info: DefaultConfig)
Statuses == {200, 304, 404}          \* HTTP statuses the endpoint answers with

\* What one httpClient.Post can come back with: an error, or a response with a
\* status.  json.Marshal of telegramMessage (three string fields) cannot fail, so
\* the encoding-error return of sendMessage is not an outcome.
Outcomes == {[err |-> TRUE, status |-> 0]} \cup {[err |-> FALSE, status |-> s] : s \in Statuses}

VARIABLES
  config,      \* Logger.config: [Async, MinLevel], fixed by New
  closed,      \* Logger.closed
  msgQueue,    \* Logger.msgQueue: the messages buffered in the channel
  chanClosed,  \* close(l.msgQueue) has been executed
  wg,          \* Logger.wg: the WaitGroup counter
  mu,          \* Logger.mu: the set of goroutines holding it (empty or one)
  pc,          \* pc[t]: where caller goroutine t is
  cur,         \* cur[t]: the message of t's running log call (id 0: none), and
               \*   (history) whether a Close call had returned when it began
  synced,      \* synced[t]: t has seen, or is ordered after, Close's write of closed
  wpc,         \* where the worker goroutine is
  wmsg,        \* the message the worker received (0: none)
  proc,        \* "running", "exited" (os.Exit) or "panicked"
  sent,        \* transport: the sendMessage invocations, in order
  diag,        \* os.Stderr: the diagnostics written by sendMessage
  calls,       \* history: the log calls begun, in order: the level; ahead: the
               \*   messages whose log call had returned when this one began and that
               \*   had not reached the transport when this one did (or have not yet)
  enq,         \* history: the messages sent on the channel, in order
  closeRet,    \* history: number of Close calls that have returned
  chanCloses,  \* history: number of close(l.msgQueue) executions
  drains,      \* history: number of l.wg.Wait() calls begun
  newRet,      \* what New returned: the logger (or nil), the error (or nil), and
               \*   whether it made the channel and started the worker
  logCall,     \* the log call being formatted: level, content and formattedMsg
  posts,       \* the requests handed to httpClient.Post, in order
  parseCall    \* a call of GetLogLevelFromString: its argument, whether it has
               \*   returned, and the level returned

progVars == <<config, closed, msgQueue, chanClosed, wg, mu, pc, cur, synced, wpc, wmsg, proc>>
ioVars == <<sent, diag>>
histVars == <<calls, enq, closeRet, chanCloses, drains>>
apiVars == <<newRet, logCall, posts, parseCall>>
vars == <<progVars, ioVars, histVars, apiVars>>

NoCall == [id |-> 0, postClose |-> FALSE]
NoParseCall == [level |-> <<>>, returned |-> FALSE, result |-> Debug]

\* ---- New (tglog.go:86-113), with BotToken and ChatID set ----
Init ==
  /\ config \in [Async : BOOLEAN, MinLevel : MinLevels]
  /\ closed = FALSE
  /\ msgQueue = <<>>
  /\ chanClosed = FALSE
  /\ wg = 0
  /\ mu = {}
  /\ pc = [t \in Threads |-> "idle"]
  /\ cur = [t \in Threads |-> NoCall]
  /\ synced = [t \in Threads |-> FALSE]
  /\ wpc = IF config.Async THEN "recv" ELSE "none"
  /\ wmsg = 0
  /\ proc = "running"
  /\ sent = <<>>
  /\ diag = <<>>
  /\ calls = <<>>
  /\ enq = <<>>
  /\ closeRet = 0
  /\ chanCloses = 0
  /\ drains = 0
  /\ newRet = [returned |-> TRUE, logger |-> TRUE, err |-> "nil",
               queue |-> config.Async, worker |-> config.Async]
  /\ logCall = [level |-> Debug, content |-> "", formattedMsg |-> <<>>]
  /\ posts = <<>>
  /\ parseCall = NoParseCall

\* ---- sendMessage (tglog.go:176-206) ----
\* One Post; a diagnostic on an error or a status >= 400; os.Exit(1) for a Fatal
\* message, reached only when Post returned a response.  (History: the message
\* leaves the "ahead" sets of the messages still to be handed over.)
\* (faulty variant: only an error status is reported, a failed Post is not)
ReportedStatusOnly(o) == ~o.err /\ o.status >= 400

\* (faulty variant: every status outside 200..299 is reported)
ReportedNon2xx(o) == o.err \/ o.status \notin 200..299

\* the outcomes for which sendMessage writes to os.Stderr: err != nil from Post,
\* or resp.StatusCode >= 400
Reported(o) == o.err \/ o.status >= 400

\* (faulty variant: the process survives a Fatal message)
sendMessageNoExit(by, id, o) ==
  /\ sent' = Append(sent, [id |-> id, by |-> by, out |-> o])
  /\ calls' = [i \in 1..Len(calls) |->
                 IF i # id /\ \A k \in 1..Len(sent) : sent[k].id # i
                   THEN [calls[i] EXCEPT !.ahead = @ \ {id}]
                   ELSE calls[i]]
  /\ diag' = IF Reported(o) THEN Append(diag, [id |-> id, out |-> o]) ELSE diag
  /\ proc' = proc

sendMessage(by, id, o) ==
  /\ sent' = Append(sent, [id |-> id, by |-> by, out |-> o])
  /\ calls' = [i \in 1..Len(calls) |->
                 IF i # id /\ \A k \in 1..Len(sent) : sent[k].id # i
                   THEN [calls[i] EXCEPT !.ahead = @ \ {id}]
                   ELSE calls[i]]
  /\ diag' = IF Reported(o) THEN Append(diag, [id |-> id, out |-> o]) ELSE diag
  /\ proc' = IF ~o.err /\ calls[id].level = Fatal THEN "exited" ELSE proc

\* ---- log (tglog.go:138-173) ----
\* (faulty variant: the comparison is off by one level)
FilteredOffByOne(lv) == lv < config.MinLevel - 1

\* if level < l.config.MinLevel { return }
Filtered(lv) == lv < config.MinLevel

\* history: the log calls that have returned, and those of them whose message has
\* not been handed to the transport yet
Returned == {i \in 1..Len(calls) : \A t \in Threads : cur[t].id # i}
Unsent == {i \in Returned : ~Filtered(calls[i].level) /\ \A k \in 1..Len(sent) : sent[k].id # i}

\* Idle goroutines with the same view of closed are interchangeable: the one with
\* the lowest number stands for whichever of them makes the next call.
NextCaller(t) == \A u \in Threads : u < t => ~(pc[u] = "idle" /\ synced[u] = synced[t])

\* The values the read of l.closed in "if l.config.Async && !l.closed" can give: it
\* is made without the mutex, so it races with Close's write, and a goroutine that
\* has neither synchronised with that write nor seen its value may still read false.
RacyClosed(t) == IF closed THEN (IF synced[t] THEN {TRUE} ELSE {TRUE, FALSE}) ELSE {FALSE}

\* (faulty variant: the channel is used whatever config.Async says)
LogBeginNoAsyncCheck(t, lv) ==
  /\ proc = "running" /\ pc[t] = "idle" /\ Len(calls) < MaxCalls
  /\ NextCaller(t)
  /\ calls' = Append(calls, [level |-> lv, ahead |-> IF Filtered(lv) THEN {} ELSE Unsent])
  /\ IF Filtered(lv)
       THEN UNCHANGED <<pc, cur, synced>>
       ELSE \E c \in RacyClosed(t) :
              /\ pc' = [pc EXCEPT ![t] = IF ~c THEN "lock" ELSE "send"]
              /\ cur' = [cur EXCEPT ![t] = [id |-> Len(calls) + 1, postClose |-> closeRet > 0]]
              /\ synced' = [synced EXCEPT ![t] = @ \/ c]
  /\ UNCHANGED <<apiVars, config, closed, msgQueue, chanClosed, wg, mu, wpc, wmsg, proc>>
  /\ UNCHANGED <<ioVars, enq, closeRet, chanCloses, drains>>

\* The call up to its first access to shared state: the filter, the formatting
\* (which reads the immutable config only) and the unlocked read of l.closed.
LogBegin(t, lv) ==
  /\ proc = "running" /\ pc[t] = "idle" /\ Len(calls) < MaxCalls
  /\ NextCaller(t)
  /\ calls' = Append(calls, [level |-> lv, ahead |-> IF Filtered(lv) THEN {} ELSE Unsent])
  /\ IF Filtered(lv)
       THEN UNCHANGED <<pc, cur, synced>>
       ELSE \E c \in (IF config.Async THEN RacyClosed(t) ELSE {FALSE}) :
              /\ pc' = [pc EXCEPT ![t] = IF config.Async /\ ~c THEN "lock" ELSE "send"]
              /\ cur' = [cur EXCEPT ![t] = [id |-> Len(calls) + 1, postClose |-> closeRet > 0]]
              /\ synced' = [synced EXCEPT ![t] = @ \/ c]
  /\ UNCHANGED <<apiVars, config, closed, msgQueue, chanClosed, wg, mu, wpc, wmsg, proc>>
  /\ UNCHANGED <<ioVars, enq, closeRet, chanCloses, drains>>

\* (faulty variant: closed is not read again under the mutex)
LogLockNoRecheck(t) ==
  /\ proc = "running" /\ pc[t] = "lock" /\ mu = {}
  /\ mu' = {t}
  /\ synced' = [synced EXCEPT ![t] = @ \/ closed]
  /\ wg' = wg + 1
  /\ pc' = [pc EXCEPT ![t] = "enqueue"]
  /\ UNCHANGED <<apiVars, config, closed, msgQueue, chanClosed, cur, wpc, wmsg, proc>>
  /\ UNCHANGED <<ioVars, histVars>>

\* (faulty variant: a call that finds closed set under the mutex returns at once)
LogLockDrop(t) ==
  /\ proc = "running" /\ pc[t] = "lock" /\ mu = {}
  /\ synced' = [synced EXCEPT ![t] = @ \/ closed]
  /\ IF ~closed
       THEN /\ mu' = {t}
            /\ wg' = wg + 1
            /\ pc' = [pc EXCEPT ![t] = "enqueue"]
            /\ UNCHANGED cur
       ELSE /\ pc' = [pc EXCEPT ![t] = "idle"]
            /\ cur' = [cur EXCEPT ![t] = NoCall]
            /\ UNCHANGED <<mu, wg>>
  /\ UNCHANGED <<apiVars, config, closed, msgQueue, chanClosed, wpc, wmsg, proc>>
  /\ UNCHANGED <<ioVars, histVars>>

\* l.mu.Lock(); if !l.closed { l.wg.Add(1); ...
LogLock(t) ==
  /\ proc = "running" /\ pc[t] = "lock" /\ mu = {}
  /\ mu' = {t}
  /\ synced' = [synced EXCEPT ![t] = @ \/ closed]
  /\ IF ~closed
       THEN /\ wg' = wg + 1
            /\ pc' = [pc EXCEPT ![t] = "enqueue"]
       ELSE /\ pc' = [pc EXCEPT ![t] = "send"]
            /\ UNCHANGED wg
  /\ UNCHANGED <<apiVars, config, closed, msgQueue, chanClosed, cur, wpc, wmsg, proc>>
  /\ UNCHANGED <<ioVars, histVars>>

\* (faulty variant: the channel never blocks its sender)
CanSendAlways == TRUE

\* l.msgQueue <- message{...} blocks while the buffer is full
CanSend == Len(msgQueue) < QueueCap

\* ... l.msgQueue <- message{...}; return } with the deferred l.mu.Unlock()
LogEnqueue(t) ==
  /\ proc = "running" /\ pc[t] = "enqueue"
  /\ chanClosed \/ CanSend
  /\ IF chanClosed
       THEN /\ proc' = "panicked"
            /\ UNCHANGED <<msgQueue, mu, pc, cur, enq>>
       ELSE /\ msgQueue' = Append(msgQueue, cur[t].id)
            /\ enq' = Append(enq, cur[t].id)
            /\ mu' = {}
            /\ pc' = [pc EXCEPT ![t] = "idle"]
            /\ cur' = [cur EXCEPT ![t] = NoCall]
            /\ UNCHANGED proc
  /\ UNCHANGED <<apiVars, config, closed, chanClosed, wg, synced, wpc, wmsg>>
  /\ UNCHANGED <<ioVars, calls, closeRet, chanCloses, drains>>

\* l.sendMessage(level, formattedMsg) on the caller's goroutine, then the return
\* (and the deferred unlock when the mutex was taken)
LogSend(t, o) ==
  /\ proc = "running" /\ pc[t] = "send"
  /\ sendMessage("caller", cur[t].id, o)
  /\ mu' = mu \ {t}
  /\ pc' = [pc EXCEPT ![t] = "idle"]
  /\ cur' = [cur EXCEPT ![t] = NoCall]
  /\ UNCHANGED <<apiVars, config, closed, msgQueue, chanClosed, wg, synced, wpc, wmsg>>
  /\ UNCHANGED <<enq, closeRet, chanCloses, drains>>

\* ---- Close (tglog.go:116-127) ----
CloseBegin(t) ==
  /\ proc = "running" /\ pc[t] = "idle"
  /\ NextCaller(t)
  /\ closeRet + Cardinality({u \in Threads : pc[u] \in {"c_lock", "c_close", "c_wait"}}) < MaxCloses
  /\ pc' = [pc EXCEPT ![t] = "c_lock"]
  /\ UNCHANGED <<apiVars, config, closed, msgQueue, chanClosed, wg, mu, cur, synced, wpc, wmsg, proc>>
  /\ UNCHANGED <<ioVars, histVars>>

\* (faulty variant: the closed flag is not consulted)
CloseNoopSyncOnly == ~config.Async

\* if !l.config.Async || l.closed { return }
CloseNoop == ~config.Async \/ closed

\* (faulty variant: a closed logger is recognised without taking the mutex)
CloseCanLockOrClosed == mu = {} \/ closed

\* (faulty variant: Close does not take the mutex)
CloseCanLockAlways == TRUE

\* l.mu.Lock() in Close blocks while another goroutine holds the mutex
CloseCanLock == mu = {}

\* l.mu.Lock(); if ... { return }; l.closed = true
CloseLock(t) ==
  /\ proc = "running" /\ pc[t] = "c_lock" /\ CloseCanLock
  /\ IF CloseNoop
       THEN /\ pc' = [pc EXCEPT ![t] = "idle"]
            /\ closeRet' = closeRet + 1
            /\ synced' = [synced EXCEPT ![t] = @ \/ closed]
            /\ UNCHANGED <<closed, mu>>
       ELSE /\ closed' = TRUE
            /\ mu' = {t}
            /\ synced' = [synced EXCEPT ![t] = TRUE]
            /\ pc' = [pc EXCEPT ![t] = "c_close"]
            /\ UNCHANGED closeRet
  /\ UNCHANGED <<apiVars, config, msgQueue, chanClosed, wg, cur, wpc, wmsg, proc>>
  /\ UNCHANGED <<ioVars, calls, enq, chanCloses, drains>>

\* close(l.msgQueue): panics on a nil or an already closed channel
CloseChan(t) ==
  /\ proc = "running" /\ pc[t] = "c_close"
  /\ chanCloses' = chanCloses + 1
  /\ IF chanClosed \/ ~config.Async
       THEN /\ proc' = "panicked"
            /\ UNCHANGED <<chanClosed, pc, drains>>
       ELSE /\ chanClosed' = TRUE
            /\ pc' = [pc EXCEPT ![t] = "c_wait"]
            /\ drains' = drains + 1
            /\ UNCHANGED proc
  /\ UNCHANGED <<apiVars, config, closed, msgQueue, wg, mu, cur, synced, wpc, wmsg>>
  /\ UNCHANGED <<ioVars, calls, enq, closeRet>>

\* (faulty variant: Close does not wait for the worker)
WaitDoneAtOnce == TRUE

\* l.wg.Wait() returns when the counter is zero
WaitDone == wg = 0

\* l.wg.Wait(), then the return with the deferred l.mu.Unlock()
CloseWait(t) ==
  /\ proc = "running" /\ pc[t] = "c_wait"
  /\ WaitDone
  /\ mu' = {}
  /\ pc' = [pc EXCEPT ![t] = "idle"]
  /\ closeRet' = closeRet + 1
  /\ UNCHANGED <<apiVars, config, closed, msgQueue, chanClosed, wg, cur, synced, wpc, wmsg, proc>>
  /\ UNCHANGED <<ioVars, calls, enq, chanCloses, drains>>

\* ---- processQueue (tglog.go:130-135) ----
\* for msg := range l.msgQueue: the next buffered message
WorkerRecv ==
  /\ proc = "running" /\ wpc = "recv" /\ msgQueue # <<>>
  /\ wmsg' = Head(msgQueue)
  /\ msgQueue' = Tail(msgQueue)
  /\ wpc' = "send"
  /\ UNCHANGED <<apiVars, config, closed, chanClosed, wg, mu, pc, cur, synced, proc>>
  /\ UNCHANGED <<ioVars, histVars>>

\* the range loop ends when the channel is closed and empty
WorkerExit ==
  /\ proc = "running" /\ wpc = "recv" /\ msgQueue = <<>> /\ chanClosed
  /\ wpc' = "exit"
  /\ UNCHANGED <<apiVars, config, closed, msgQueue, chanClosed, wg, mu, pc, cur, synced, wmsg, proc>>
  /\ UNCHANGED <<ioVars, histVars>>

\* (faulty variant: a failed delivery is attempted again)
WorkerSendRetry(o) ==
  /\ proc = "running" /\ wpc = "send"
  /\ sendMessage("worker", wmsg, o)
  /\ wpc' = IF Reported(o) THEN "send" ELSE "done"
  /\ UNCHANGED <<apiVars, config, closed, msgQueue, chanClosed, wg, mu, pc, cur, synced, wmsg>>
  /\ UNCHANGED <<enq, closeRet, chanCloses, drains>>

\* l.sendMessage(msg.level, msg.content)
WorkerSend(o) ==
  /\ proc = "running" /\ wpc = "send"
  /\ sendMessage("worker", wmsg, o)
  /\ wpc' = "done"
  /\ UNCHANGED <<apiVars, config, closed, msgQueue, chanClosed, wg, mu, pc, cur, synced, wmsg>>
  /\ UNCHANGED <<enq, closeRet, chanCloses, drains>>

\* (faulty variant: the worker never marks a message done)
WorkerDoneForgotten ==
  /\ proc = "running" /\ wpc = "done"
  /\ wmsg' = 0
  /\ wpc' = "recv"
  /\ UNCHANGED <<apiVars, config, closed, msgQueue, chanClosed, wg, mu, pc, cur, synced, proc>>
  /\ UNCHANGED <<ioVars, histVars>>

\* l.wg.Done(): panics on a negative counter
WorkerDone ==
  /\ proc = "running" /\ wpc = "done"
  /\ wg' = wg - 1
  /\ proc' = IF wg = 0 THEN "panicked" ELSE proc
  /\ wmsg' = 0
  /\ wpc' = "recv"
  /\ UNCHANGED <<apiVars, config, closed, msgQueue, chanClosed, mu, pc, cur, synced>>
  /\ UNCHANGED <<ioVars, histVars>>

\* ---- the program ----
CallerStep(t) ==
  \/ LogLock(t)
  \/ LogEnqueue(t)
  \/ \E o \in Outcomes : LogSend(t, o)
  \/ CloseLock(t)
  \/ CloseChan(t)
  \/ CloseWait(t)

WorkerStep ==
  \/ WorkerRecv
  \/ WorkerExit
  \/ \E o \in Outcomes : WorkerSend(o)
  \/ WorkerDone

Next ==
  \/ \E t \in Threads, lv \in CallLevels : LogBegin(t, lv)
  \/ \E t \in Threads : CloseBegin(t)
  \/ \E t \in Threads : CallerStep(t)
  \/ WorkerStep

Spec == Init /\ [][Next]_vars

\* The goroutines are scheduled fairly and a Post always returns (the client has a
\* timeout): every step that stays possible is eventually taken.  Whether a caller
\* begins another call is the caller's choice and carries no fairness.
FairSpec == Spec /\ WF_vars(WorkerStep) /\ \A t \in Threads : WF_vars(CallerStep(t))

\* ---- one logger, one call at a time: New, the formatting of log, the request ----
\* Texts are sequences of pieces, so that layouts can be compared piece by piece.
BotTokens == {"", "123:abc"}
ChatIDs == {"", "42"}
AppNames == {"", "X"}
TimeFormats == {"", "2006-01-02"}
HTTPClients == {"nil", "custom"}
Contents == {"hello", "bye"}        \* results of fmt.Sprintf(format, args...)
DefaultTimeFormat == "2006-01-02 15:04:05"
Configs ==
  [BotToken : BotTokens, ChatID : ChatIDs, MinLevel : MinLevels, AppName : AppNames,
   Async : BOOLEAN, DisableColors : BOOLEAN, TimeFormat : TimeFormats,
   HTTPClient : HTTPClients]

NotReturned == [returned |-> FALSE, logger |-> FALSE, err |-> "nil", queue |-> FALSE, worker |-> FALSE]
NoLogCall == [level |-> Debug, content |-> "", formattedMsg |-> <<>>]

\* before New(config): no logger, no channel, no worker goroutine
ApiInit ==
  /\ config \in Configs
  /\ newRet = NotReturned
  /\ logCall = NoLogCall
  /\ posts = <<>>
  /\ parseCall = NoParseCall
  /\ closed = FALSE /\ msgQueue = <<>> /\ chanClosed = FALSE /\ wg = 0 /\ mu = {}
  /\ pc = [t \in Threads |-> "idle"]
  /\ cur = [t \in Threads |-> NoCall]
  /\ synced = [t \in Threads |-> FALSE]
  /\ wpc = "none" /\ wmsg = 0 /\ proc = "running"
  /\ sent = <<>> /\ diag = <<>>
  /\ calls = <<>> /\ enq = <<>> /\ closeRet = 0 /\ chanCloses = 0 /\ drains = 0

\* (faulty variant: the channel and the worker are made before the credentials
\* are looked at)
NewEager ==
  /\ ~newRet.returned
  /\ newRet' = [returned |-> TRUE,
                logger |-> config.BotToken # "" /\ config.ChatID # "",
                err |-> IF config.BotToken = "" THEN "bot token is required"
                        ELSE IF config.ChatID = "" THEN "chat ID is required" ELSE "nil",
                queue |-> config.Async, worker |-> config.Async]
  /\ wpc' = IF config.Async THEN "recv" ELSE "none"
  /\ UNCHANGED <<config, closed, msgQueue, chanClosed, wg, mu, pc, cur, synced, wmsg, proc>>
  /\ UNCHANGED <<ioVars, histVars, logCall, posts, parseCall>>

\* New (tglog.go:86-113)
New ==
  /\ ~newRet.returned
  /\ IF config.BotToken = ""
       THEN /\ newRet' = [NotReturned EXCEPT !.returned = TRUE, !.err = "bot token is required"]
            /\ UNCHANGED <<config, wpc>>
       ELSE IF config.ChatID = ""
       THEN /\ newRet' = [NotReturned EXCEPT !.returned = TRUE, !.err = "chat ID is required"]
            /\ UNCHANGED <<config, wpc>>
       ELSE /\ config' = [config EXCEPT
                            !.HTTPClient = IF @ = "nil" THEN "default" ELSE @,
                            !.TimeFormat = IF @ = "" THEN DefaultTimeFormat ELSE @]
            /\ newRet' = [returned |-> TRUE, logger |-> TRUE, err |-> "nil",
                          queue |-> config.Async, worker |-> config.Async]
            /\ wpc' = IF config.Async THEN "recv" ELSE "none"
  /\ UNCHANGED <<closed, msgQueue, chanClosed, wg, mu, pc, cur, synced, wmsg, proc>>
  /\ UNCHANGED <<ioVars, histVars, logCall, posts, parseCall>>

\* (faulty variant: the emoji inside the brackets, no markup)
getLogLevelPrefixPlain(level, colored) ==
  LET prefix == CASE level = Debug -> "DEBUG" [] level = Info -> "INFO"
                  [] level = Warning -> "WARNING" [] level = Error -> "ERROR"
                  [] level = Fatal -> "FATAL" [] OTHER -> "UNKNOWN"
      emoji == CASE level = Debug -> "EMOJI_MAGNIFIER" [] level = Info -> "EMOJI_INFO"
                 [] level = Warning -> "EMOJI_WARNING" [] level = Error -> "EMOJI_CROSS"
                 [] level = Fatal -> "EMOJI_SKULL" [] OTHER -> "EMOJI_QUESTION"
  IN  <<"[", emoji, " ", prefix, "]">>

\* getLogLevelPrefix (tglog.go:209-251): fmt.Sprintf("%s [%s]", emoji, prefix), the
\* prefix wrapped in <code> (Debug, Info) or <b><code> (Warning, Error, Fatal) when
\* colored
getLogLevelPrefix(level, colored) ==
  LET name == CASE level = Debug -> "DEBUG" [] level = Info -> "INFO"
                [] level = Warning -> "WARNING" [] level = Error -> "ERROR"
                [] level = Fatal -> "FATAL" [] OTHER -> "UNKNOWN"
      emoji == CASE level = Debug -> "EMOJI_MAGNIFIER" [] level = Info -> "EMOJI_INFO"
                 [] level = Warning -> "EMOJI_WARNING" [] level = Error -> "EMOJI_CROSS"
                 [] level = Fatal -> "EMOJI_SKULL" [] OTHER -> "EMOJI_QUESTION"
      prefix == IF ~colored \/ level \notin LogLevels THEN <<name>>
                ELSE IF level \in {Debug, Info} THEN <<"<code>", name, "</code>">>
                ELSE <<"<b>", "<code>", name, "</code>", "</b>">>
  IN  <<emoji, " ", "[">> \o prefix \o <<"]">>

\* now.Format(l.config.TimeFormat) for the instant of the call
FormatTime(layout) ==
  IF layout = "2006-01-02" THEN "2024-05-17" ELSE "2024-05-17 10:30:00"

\* formattedMsg of log (tglog.go:147-155):
\* fmt.Sprintf("%s%s %s - %s", appName, prefix, timestamp, content)
FormattedMsg(level, content) ==
  LET prefix == getLogLevelPrefix(level, ~config.DisableColors)
      timestamp == FormatTime(config.TimeFormat)
      appName == IF config.AppName # ""
                   THEN <<"<b>", "[", config.AppName, "]", "</b>", " ">>
                   ELSE <<>>
  IN  appName \o prefix \o <<" ", timestamp, " ", "-", " ", content>>

\* log up to formattedMsg (tglog.go:138-155)
FormatLog(level, content) ==
  /\ newRet.logger /\ proc = "running"
  /\ logCall.formattedMsg = <<>> /\ Len(posts) < MaxCalls
  /\ logCall' = IF Filtered(level) THEN logCall
                ELSE [level |-> level, content |-> content,
                      formattedMsg |-> FormattedMsg(level, content)]
  /\ UNCHANGED <<progVars, ioVars, histVars, newRet, posts, parseCall>>

\* json.Marshal writes <, > and & of a string as \u003c, \u003e and \u0026
JSONEscape(piece) ==
  CASE piece = "<b>" -> "\\u003cb\\u003e"
    [] piece = "</b>" -> "\\u003c/b\\u003e"
    [] piece = "<code>" -> "\\u003ccode\\u003e"
    [] piece = "</code>" -> "\\u003c/code\\u003e"
    [] OTHER -> piece

\* the decoding of a JSON string by the receiving end
JSONUnescape(piece) ==
  CASE piece = "\\u003cb\\u003e" -> "<b>"
    [] piece = "\\u003c/b\\u003e" -> "</b>"
    [] piece = "\\u003ccode\\u003e" -> "<code>"
    [] piece = "\\u003c/code\\u003e" -> "</code>"
    [] OTHER -> piece

\* json.Marshal(msg) for the telegramMessage struct and its tags (tglog.go:68-72)
Marshal(msg) ==
  [chat_id |-> JSONEscape(msg.ChatID),
   text |-> [i \in 1..Len(msg.Text) |-> JSONEscape(msg.Text[i])],
   parse_mode |-> JSONEscape(msg.ParseMode)]

\* json.Unmarshal(body, &msg) of the receiving end (tglog_test.go:37-42)
Unmarshal(body) ==
  [ChatID |-> JSONUnescape(body.chat_id),
   Text |-> [i \in 1..Len(body.text) |-> JSONUnescape(body.text[i])],
   ParseMode |-> JSONUnescape(body.parse_mode)]

\* (faulty variant: the text is sent as Markdown)
RequestMarkdown(content) ==
  [method |-> "POST",
   url |-> <<"https://api.telegram.org/bot", config.BotToken, "/sendMessage">>,
   contentType |-> "application/json",
   body |-> Marshal([ChatID |-> config.ChatID, Text |-> content, ParseMode |-> "Markdown"])]

\* the request of sendMessage (tglog.go:177-191)
Request(content) ==
  [method |-> "POST",
   url |-> <<"https://api.telegram.org/bot", config.BotToken, "/sendMessage">>,
   contentType |-> "application/json",
   body |-> Marshal([ChatID |-> config.ChatID, Text |-> content, ParseMode |-> "HTML"])]

\* sendMessage(level, formattedMsg) (tglog.go:176-206) for the call formatted, made
\* by the caller (tglog.go:172) or, the message having passed through the channel
\* unchanged, by the worker (tglog.go:132)
PostMessage(o) ==
  /\ proc = "running" /\ logCall.formattedMsg # <<>>
  /\ posts' = Append(posts, Request(logCall.formattedMsg))
  /\ sent' = Append(sent, [id |-> Len(posts) + 1,
                           by |-> IF config.Async THEN "worker" ELSE "caller", out |-> o])
  /\ diag' = IF Reported(o) THEN Append(diag, [id |-> Len(posts) + 1, out |-> o]) ELSE diag
  /\ proc' = IF ~o.err /\ logCall.level = Fatal THEN "exited" ELSE proc
  /\ logCall' = NoLogCall
  /\ UNCHANGED <<config, closed, msgQueue, chanClosed, wg, mu, pc, cur, synced, wpc, wmsg>>
  /\ UNCHANGED <<histVars, newRet, parseCall>>

ApiNext ==
  \/ New
  \/ \E level \in CallLevels, content \in Contents : FormatLog(level, content)
  \/ \E o \in Outcomes : PostMessage(o)

ApiSpec == ApiInit /\ [][ApiNext]_vars

\* ---- GetLogLevelFromString (helpers.go:39-55) ----
\* Strings are sequences of characters, so that the case of each letter counts.
Upper(c) ==
  CASE c = "a" -> "A" [] c = "b" -> "B" [] c = "d" -> "D" [] c = "e" -> "E"
    [] c = "f" -> "F" [] c = "g" -> "G" [] c = "i" -> "I" [] c = "l" -> "L"
    [] c = "n" -> "N" [] c = "o" -> "O" [] c = "r" -> "R" [] c = "t" -> "T"
    [] c = "u" -> "U" [] c = "w" -> "W" [] OTHER -> c

\* the level names the switch knows
LevelNames ==
  {<<"d", "e", "b", "u", "g">>, <<"i", "n", "f", "o">>,
   <<"w", "a", "r", "n", "i", "n", "g">>, <<"w", "a", "r", "n">>,
   <<"e", "r", "r", "o", "r">>, <<"f", "a", "t", "a", "l">>}

\* a name written in every mix of upper and lower case
CaseMixes(name) ==
  {[i \in 1..Len(name) |-> IF m[i] THEN Upper(name[i]) ELSE name[i]] :
     m \in [1..Len(name) -> BOOLEAN]}

\* strings that are no level name in any case
OtherStrings ==
  {<<>>, <<"t", "r", "a", "c", "e">>, <<"e", "r", "r">>, <<"i", "n", "f", "o", "s">>,
   <<" ", "i", "n", "f", "o">>, <<"f", "a", "t", "a", "l", "!">>, <<"0">>, <<"W">>}

LevelStrings == UNION {CaseMixes(name) : name \in LevelNames} \cup OtherStrings

\* (faulty variant: an unknown string gives the zero LogLevel)
GetLogLevelFromStringZero(level) ==
  CASE level = <<"d", "e", "b", "u", "g">> -> Debug
    [] level = <<"i", "n", "f", "o">> -> Info
    [] level = <<"w", "a", "r", "n", "i", "n", "g">> -> Warning
    [] level = <<"w", "a", "r", "n">> -> Warning
    [] level = <<"e", "r", "r", "o", "r">> -> Error
    [] level = <<"f", "a", "t", "a", "l">> -> Fatal
    [] OTHER -> Debug

\* switch level { case "debug": ... default: return Info }
GetLogLevelFromString(level) ==
  CASE level = <<"d", "e", "b", "u", "g">> -> Debug
    [] level = <<"i", "n", "f", "o">> -> Info
    [] level = <<"w", "a", "r", "n", "i", "n", "g">> -> Warning
    [] level = <<"w", "a", "r", "n">> -> Warning
    [] level = <<"e", "r", "r", "o", "r">> -> Error
    [] level = <<"f", "a", "t", "a", "l">> -> Fatal
    [] OTHER -> Info

\* a caller about to pass a string to GetLogLevelFromString
ParseInit ==
  /\ parseCall \in {[level |-> l, returned |-> FALSE, result |-> Debug] : l \in LevelStrings}
  /\ config = [Async |-> TRUE, MinLevel |-> Info]
  /\ newRet = NotReturned
  /\ logCall = NoLogCall
  /\ posts = <<>>
  /\ closed = FALSE /\ msgQueue = <<>> /\ chanClosed = FALSE /\ wg = 0 /\ mu = {}
  /\ pc = [t \in Threads |-> "idle"]
  /\ cur = [t \in Threads |-> NoCall]
  /\ synced = [t \in Threads |-> FALSE]
  /\ wpc = "none" /\ wmsg = 0 /\ proc = "running"
  /\ sent = <<>> /\ diag = <<>>
  /\ calls = <<>> /\ enq = <<>> /\ closeRet = 0 /\ chanCloses = 0 /\ drains = 0

\* the call and its return
ParseLevel ==
  /\ ~parseCall.returned
  /\ parseCall' = [parseCall EXCEPT !.returned = TRUE,
                                    !.result = GetLogLevelFromString(parseCall.level)]
  /\ UNCHANGED <<progVars, ioVars, histVars, newRet, logCall, posts>>

ParseSpec == ParseInit /\ [][ParseLevel]_vars

\* ---- vocabulary of the properties ----
Calls == 1..Len(calls)
SentIds == {sent[k].id : k \in 1..Len(sent)}
EnqIds == {enq[k] : k \in 1..Len(enq)}
QueueIds == {msgQueue[k] : k \in 1..Len(msgQueue)}
Count(id) == Cardinality({k \in 1..Len(sent) : sent[k].id = id})
WorkerSends == {k \in 1..Len(sent) : sent[k].by = "worker"}
Accepted == {i \in Calls : calls[i].level >= config.MinLevel}
InFlight == {i \in Calls : \E t \in Threads : cur[t].id = i}
Closing(t) == pc[t] \in {"c_close", "c_wait"}
\* the Close call that set the flag has returned
DrainReturned == config.Async /\ closed /\ \A t \in Threads : ~Closing(t)
\* t has incremented the counter and waits for a free slot of the full channel
Blocked(t) == pc[t] = "enqueue" /\ Len(msgQueue) = QueueCap /\ ~chanClosed
FatalLogged == \E i \in Calls : calls[i].level = Fatal

\* C1: two messages that both reach sendMessage reach it in the order their log
\* calls were accepted: a message whose log call returned before another log call
\* began is never handed to the transport after that later message.
C1_GlobalFIFO ==
  \A id \in SentIds : calls[id].ahead = {}

\* C2: when the Close call that drains an async logger has returned, every message
\* that was enqueued has been handed to the transport exactly once, by the worker,
\* nothing is left in the channel or with the worker, and once no log call is
\* running the transport invocations number the accepted log calls.
C2_NoLossNoDupOnClose ==
  DrainReturned =>
    /\ \A id \in EnqIds : Count(id) = 1 /\ \E k \in WorkerSends : sent[k].id = id
    /\ msgQueue = <<>> /\ wmsg = 0
    /\ Cardinality(WorkerSends) = Len(enq)
    /\ (InFlight = {} => Len(sent) = Cardinality(Accepted))

C2_Witness == DrainReturned /\ Len(enq) >= 2 /\ InFlight = {} /\ proc = "running"

\* a step in which t's log call hands its message to the channel or the transport
Delivers(t) == cur[t].id # 0 /\ cur'[t].id = 0 /\ (sent' # sent \/ enq' # enq)

\* C3: a log call begun after Close has returned on an async logger issues no
\* transport request and enqueues nothing.
C3_InertAfterClose ==
  [][\A t \in Threads : (config.Async /\ cur[t].postClose) => ~Delivers(t)]_vars

\* C4: a log call that runs concurrently with Close (it began before any Close had
\* returned) and has seen the closed flag set, at the unlocked check or at the
\* check under the mutex (on an async logger that is where pc = "send"), is
\* dropped: its message is neither enqueued nor handed to the transport.
C4_DroppedWhileClosing ==
  [][\A t \in Threads :
       (config.Async /\ pc[t] = "send" /\ ~cur[t].postClose) => ~Delivers(t)]_vars

\* C5: however often and from whichever goroutines Close is called, the channel is
\* closed at most once and the drain begun at most once (exactly once as soon as one
\* call has returned on an async logger), nothing panics and no message is delivered
\* twice.
C5_CloseIdempotent ==
  /\ chanCloses <= 1 /\ drains <= 1
  /\ proc # "panicked"
  /\ \A i \in Calls : Count(i) <= 1
  /\ (config.Async /\ closeRet >= 1) => (chanCloses = 1 /\ drains = 1)

C5_Witness == config.Async /\ closeRet >= 2 /\ Len(sent) >= 1 /\ proc = "running"

\* C6 as stated: a log call that finds the channel full stays blocked until the
\* worker receives a message; then its send succeeds and its message is eventually
\* handed to the transport (it is not lost).
C6_Original ==
  /\ [][\A t \in Threads : Blocked(t) =>
          (pc'[t] = "enqueue" /\ (msgQueue' = msgQueue \/ msgQueue' = Tail(msgQueue)))]_vars
  /\ \A id \in 1..MaxCalls :
       (\E t \in Threads : Blocked(t) /\ cur[t].id = id)
         ~> (id \in EnqIds /\ id \in SentIds)

\* C6 as amended: the same, unless the delivery of a Fatal message terminates the
\* process first.
C6_Backpressure ==
  /\ [][\A t \in Threads : Blocked(t) =>
          (pc'[t] = "enqueue" /\ (msgQueue' = msgQueue \/ msgQueue' = Tail(msgQueue)))]_vars
  /\ \A id \in 1..MaxCalls :
       (\E t \in Threads : Blocked(t) /\ cur[t].id = id)
         ~> ((id \in EnqIds /\ id \in SentIds) \/ proc = "exited")

C6_Witness == \E t \in Threads : Blocked(t) /\ wpc = "recv" /\ proc = "running"

\* C7: whenever a Close call on an async logger has returned, the first or a later
\* one, the channel is empty and every enqueued message has been handed to the
\* transport.
C7_CloseSyncPoint ==
  (config.Async /\ closeRet >= 1) =>
    /\ msgQueue = <<>>
    /\ EnqIds \subseteq SentIds

C7_Witness == config.Async /\ closeRet = 2 /\ Len(enq) = 2

\* C8: with fair scheduling and a transport that returns, and no Fatal message
\* logged, every log call and every Close call that has begun returns.
C8_NoCallerBlocksForever ==
  \A t \in Threads : (pc[t] # "idle") ~> (pc[t] = "idle" \/ FatalLogged)

\* Close is called while a producer holds the mutex, blocked on the full channel
C8_Witness ==
  \E t, u \in Threads : pc[t] = "c_lock" /\ Blocked(u) /\ ~FatalLogged

\* C9: a log call below MinLevel, in either mode, is never enqueued or handed to
\* the transport, and the step that makes it leaves the logger's state (channel,
\* counter, closed flag, mutex) and the transport untouched.
C9_SeverityFilter ==
  /\ [](\A i \in Calls : calls[i].level < config.MinLevel =>
          i \notin SentIds /\ i \notin EnqIds /\ i \notin QueueIds /\ i \notin InFlight)
  /\ [][(Len(calls') > Len(calls) /\ calls'[Len(calls')].level < config.MinLevel)
          => UNCHANGED <<progVars, ioVars, enq>>]_vars

C9_Witness ==
  \E i \in Calls : calls[i].level < config.MinLevel /\ Len(sent) >= 1

\* C10: whenever the transport is invoked for a Fatal message the process
\* terminates after the attempt, whatever its outcome.
C10_LogThenDie ==
  \A k \in 1..Len(sent) : calls[sent[k].id].level = Fatal => proc = "exited"

\* C11: on an async logger the process is only ever terminated by the worker (the
\* Fatal log call itself has returned or is still running, it does not terminate
\* the process), and at that moment every message whose log call had returned
\* before the Fatal call began has been handed to the transport.
C11_FatalBehindEarlier ==
  (config.Async /\ proc = "exited") =>
    /\ sent[Len(sent)].by = "worker"
    /\ calls[sent[Len(sent)].id].ahead = {}

\* the messages the worker has handed to the transport, in order
WorkerSent == SelectSeq(sent, LAMBDA e : e.by = "worker")
WorkerSentIds == [k \in 1..Len(WorkerSent) |-> WorkerSent[k].id]
\* the messages still to be attempted by the worker, in order
Pending == (IF wpc = "send" THEN <<wmsg>> ELSE <<>>) \o msgQueue

\* C12: the worker attempts the enqueued messages once each, in the order of the
\* channel, whatever the outcomes: what it has attempted followed by what is
\* pending is always exactly what was enqueued.  After a failed attempt for a
\* non-Fatal message its next steps are wg.Done and the next receive, and (under
\* fair scheduling) every enqueued message is attempted unless a Fatal message
\* terminates the process.
C12_FailureNeverBlocks ==
  /\ [](WorkerSentIds \o Pending = enq)
  /\ [][(wpc = "send" /\ wpc' # "send" /\ Reported(sent'[Len(sent')].out)
           /\ calls[wmsg].level # Fatal)
          => (wpc' = "done" /\ proc' = "running")]_vars
  /\ [][(wpc = "done" /\ wpc' # "done") => (wpc' = "recv" /\ wg' = wg - 1)]_vars
  /\ \A id \in 1..MaxCalls :
       (id \in EnqIds) ~> ((\E k \in 1..Len(WorkerSent) : WorkerSent[k].id = id) \/ proc = "exited")

\* a failed attempt for a non-Fatal message was followed by the next message
C12_Witness ==
  /\ Len(WorkerSent) = 2 /\ proc = "running"
  /\ Reported(WorkerSent[1].out) /\ calls[WorkerSent[1].id].level # Fatal
  /\ WorkerSent[2].id # WorkerSent[1].id

\* the diagnostics written for message id
DiagOf(id) == {j \in 1..Len(diag) : diag[j].id = id}
\* t's running log call is the one making the transport invocation of this step
Attempts(t) ==
  /\ cur[t].id # 0 /\ Len(sent') = Len(sent) + 1
  /\ sent'[Len(sent')].id = cur[t].id /\ sent'[Len(sent')].by = "caller"

C15_SyncInertAfterClose ==
  [][\A t \in Threads : (~config.Async /\ cur[t].postClose) => ~Attempts(t)]_vars

\* C16: on an async logger every transport invocation is made by the worker, none
\* on the goroutine of a log call.
C16_OnlyWorkerSends ==
  config.Async => \A k \in 1..Len(sent) : sent[k].by = "worker"

\* the step in which t's log call evaluates "l.config.Async && !l.closed"
LogChecksClosed(t) == config.Async /\ pc[t] = "idle" /\ cur'[t].id # 0

\* C17: the closed flag is only accessed under the mutex: when a log call reads it
\* no other goroutine holds the mutex (so none is inside Close), and the value read
\* is the current one (a call that goes on to the locked section read false from a
\* flag that is false).
C17_ClosedGuarded ==
  [][\A t \in Threads :
       LogChecksClosed(t) => (mu = {} /\ (pc'[t] = "lock" => ~closed))]_vars

C14_NewRequiresCredentials ==
  (newRet.returned /\ (config.BotToken = "" \/ config.ChatID = "")) =>
    /\ ~newRet.logger /\ newRet.err # "nil"
    /\ ~newRet.queue /\ ~newRet.worker /\ wpc = "none"
    /\ logCall = NoLogCall /\ posts = <<>>

\* New has refused a Config that asks for the async mode
C14_Witness ==
  newRet.returned /\ config.Async /\ config.BotToken # "" /\ config.ChatID = ""

\* the pieces of a text
Pieces(text) == {text[i] : i \in 1..Len(text)}

\* C19: every sendMessage invocation hands exactly one request to the HTTP client:
\* a POST whose JSON body decodes to chat_id = the configured ChatID, parse_mode =
\* "HTML" and text = the formatted message of the log call, which contains the
\* app name when one is configured; requests and invocations are equal in number.
C19_OnePostPerDelivery ==
  /\ [](Len(posts) = Len(sent))
  /\ [][posts' # posts =>
          /\ Len(posts') = Len(posts) + 1
          /\ SubSeq(posts', 1, Len(posts)) = posts
          /\ posts'[Len(posts')].method = "POST"
          /\ Unmarshal(posts'[Len(posts')].body) =
               [ChatID |-> config.ChatID,
                Text |-> FormattedMsg(logCall.level, logCall.content),
                ParseMode |-> "HTML"]
          /\ (config.AppName # "" =>
                config.AppName \in Pieces(Unmarshal(posts'[Len(posts')].body).Text))]_vars

\* two deliveries of different messages with markup in them
C19_Witness ==
  /\ Len(posts) = 2 /\ config.AppName = "X" /\ ~config.DisableColors
  /\ posts[1].body.text # posts[2].body.text

\* the call of the example: app name "X", level Info, colors disabled, body "hello"
ExampleCall ==
  /\ logCall.formattedMsg # <<>>
  /\ config.AppName = "X" /\ config.DisableColors
  /\ logCall.level = Info /\ logCall.content = "hello"
Emojis ==
  {"EMOJI_MAGNIFIER", "EMOJI_INFO", "EMOJI_WARNING", "EMOJI_CROSS", "EMOJI_SKULL", "EMOJI_QUESTION"}

\* C20 as stated: the example gives "[X] [<icon> INFO] <timestamp> - hello"; with
\* colors enabled the severity tag has emphasis markup and no plain brackets; with
\* an empty app name the text begins with the severity tag.
C20_Original ==
  logCall.formattedMsg # <<>> =>
    /\ ExampleCall =>
         logCall.formattedMsg =
           <<"[", "X", "]", " ", "[", "EMOJI_INFO", " ", "INFO", "]", " ",
             FormatTime(config.TimeFormat), " ", "-", " ", "hello">>
    /\ (~config.DisableColors /\ config.AppName = "") =>
         /\ "<code>" \in Pieces(logCall.formattedMsg)
         /\ "[" \notin Pieces(logCall.formattedMsg)
    /\ config.AppName = "" => logCall.formattedMsg[1] \in Emojis \cup {"[", "<b>", "<code>"}

\* C20 as amended: the example gives "<b>[X]</b> <icon> [INFO] <timestamp> - hello":
\* the app name in square brackets inside bold markup, a space, the icon, a space,
\* the level name alone in plain square brackets, a space, the timestamp, " - ",
\* the body.  With colors enabled the level name, still inside the brackets, is
\* wrapped in <code> (Debug, Info) or <b><code> (Warning and above).  With an empty
\* app name the text begins with the icon.
C20_FormatterLayout ==
  logCall.formattedMsg # <<>> =>
    /\ ExampleCall =>
         logCall.formattedMsg =
           <<"<b>", "[", "X", "]", "</b>", " ", "EMOJI_INFO", " ", "[", "INFO", "]", " ",
             FormatTime(config.TimeFormat), " ", "-", " ", "hello">>
    /\ (~config.DisableColors /\ config.AppName = "" /\ logCall.level = Info) =>
         logCall.formattedMsg =
           <<"EMOJI_INFO", " ", "[", "<code>", "INFO", "</code>", "]", " ",
             FormatTime(config.TimeFormat), " ", "-", " ", logCall.content>>
    /\ (~config.DisableColors /\ config.AppName = "" /\ logCall.level = Fatal) =>
         logCall.formattedMsg =
           <<"EMOJI_SKULL", " ", "[", "<b>", "<code>", "FATAL", "</code>", "</b>", "]", " ",
             FormatTime(config.TimeFormat), " ", "-", " ", logCall.content>>
    /\ (config.DisableColors /\ config.AppName = "") =>
         /\ logCall.formattedMsg[1] \in Emojis
         /\ Pieces(logCall.formattedMsg) \cap {"<b>", "</b>", "<code>", "</code>"} = {}

C20_Witness == ExampleCall /\ config.TimeFormat = "2006-01-02"

\* s in lower case
ToLower(s) ==
  [i \in 1..Len(s) |->
     IF \E c \in {"a", "b", "d", "e", "f", "g", "i", "l", "n", "o", "r", "t", "u", "w"} :
          Upper(c) = s[i]
       THEN CHOOSE c \in {"a", "b", "d", "e", "f", "g", "i", "l", "n", "o", "r", "t", "u", "w"} :
              Upper(c) = s[i]
       ELSE s[i]]
LevelOf(name) ==
  CASE name = <<"d", "e", "b", "u", "g">> -> Debug
    [] name = <<"i", "n", "f", "o">> -> Info
    [] name \in {<<"w", "a", "r", "n", "i", "n", "g">>, <<"w", "a", "r", "n">>} -> Warning
    [] name = <<"e", "r", "r", "o", "r">> -> Error
    [] name = <<"f", "a", "t", "a", "l">> -> Fatal

\* C21: for a level name written in any mix of upper and lower case
\* GetLogLevelFromString returns the level of that name.
C21_CaseInsensitive ==
  (parseCall.returned /\ ToLower(parseCall.level) \in LevelNames) =>
    parseCall.result = LevelOf(ToLower(parseCall.level))

\* C25: for every string that is not one of the names of the switch, the empty
\* string included, GetLogLevelFromString returns Info; it returns a level for
\* every string (there is no error result).
C25_FailOpen ==
  /\ parseCall.returned =>
       /\ parseCall.result \in LogLevels
       /\ parseCall.level \notin LevelNames => parseCall.result = Info
  /\ ~parseCall.returned => ENABLED ParseLevel

\* the empty string was parsed
C25_Witness == parseCall.returned /\ parseCall.level = <<>>

\* C22: once closed is true it stays true, the channel once closed stays closed
\* and is closed at most once, and from a state with closed set no message is
\* added to the channel.
C22_ClosedTerminal ==
  /\ [](chanCloses <= 1 /\ (chanClosed => closed))
  /\ [][(closed => (closed' /\ enq' = enq /\ Len(msgQueue') <= Len(msgQueue)))
        /\ (chanClosed => (chanClosed' /\ chanCloses' = chanCloses))]_vars

\* calls went on after the close: a second Close and a log call
C22_Witness ==
  /\ config.Async /\ closed /\ chanClosed /\ closeRet = 2
  /\ \E t \in Threads : cur[t].postClose

\* C23 as stated: when a Close call has returned on an async logger the worker
\* has left its receive loop.
C23_Original ==
  (config.Async /\ closeRet >= 1) => wpc = "exit"

\* C23 as amended: when a Close call has returned on an async logger the worker
\* has marked every delivery done and holds no message; it has left its receive
\* loop or is about to find the channel closed and empty and leave it.
C23_CloseAwaitsDeliveries ==
  (config.Async /\ closeRet >= 1) =>
    /\ wpc \in {"recv", "exit"} /\ wmsg = 0
    /\ msgQueue = <<>> /\ chanClosed /\ wg = 0
    /\ Len(WorkerSent) = Len(enq)

\* Close has returned after a drain and the worker is still in its loop
C23_Witness ==
  config.Async /\ closeRet >= 1 /\ Len(enq) >= 1 /\ wpc = "recv"

\* C24: a synchronous logger has no channel and no worker, ever; every transport
\* invocation is made by the goroutine of the log call; a log call that is
\* running has made none yet and an accepted log call that has returned has made
\* exactly one.
C24_SyncNoQueueNoWorker ==
  ~config.Async =>
    /\ ~newRet.queue /\ ~newRet.worker /\ wpc = "none" /\ wmsg = 0
    /\ msgQueue = <<>> /\ enq = <<>> /\ wg = 0 /\ ~chanClosed
    /\ \A k \in 1..Len(sent) : sent[k].by = "caller"
    /\ \A i \in InFlight : Count(i) = 0
    /\ \A i \in Accepted \ InFlight : Count(i) = 1

\* two goroutines have logged on a synchronous logger, one call still running
C24_Witness ==
  ~config.Async /\ Len(sent) = 1 /\ Cardinality(InFlight) = 1 /\ Len(calls) = 2

\* C26: nothing panics: a log call that is about to send on the channel holds the
\* mutex and the channel is open and closed is false; a synchronous logger never
\* executes close(l.msgQueue).
C26_NoSendOnClosedChannel ==
  /\ proc # "panicked"
  /\ \A t \in Threads : pc[t] = "enqueue" => (mu = {t} /\ ~chanClosed /\ ~closed)
  /\ ~config.Async => chanCloses = 0

\* a log call that read closed = false without the mutex now waits for the mutex
\* while the channel is already closed
C26_Witness ==
  \E t \in Threads : pc[t] = "lock" /\ chanClosed

\* C27: a message is handed to sendMessage at most once, by the worker if and only
\* if it was enqueued; an accepted log call that has returned without enqueueing
\* has made the invocation itself; and (under fair scheduling) every accepted log
\* call leads to the invocation for its message unless a Fatal message terminates
\* the process.
C27_NoSilentDrop ==
  /\ [](\A i \in Calls :
          /\ Count(i) <= 1
          /\ \A k \in 1..Len(sent) : sent[k].id = i =>
               (sent[k].by = "worker" <=> i \in EnqIds)
          /\ (i \in Accepted \ InFlight /\ i \notin EnqIds) => Count(i) = 1)
  /\ \A id \in 1..MaxCalls :
       (id \in Accepted) ~> (Count(id) = 1 \/ proc = "exited")

\* both ways of delivery on one logger: one message by the worker, one by a caller
\* that found closed set
C27_Witness ==
  /\ config.Async /\ Len(sent) = 2 /\ proc = "running"
  /\ \E k \in 1..2 : sent[k].by = "worker"
  /\ \E k \in 1..2 : sent[k].by = "caller"

ExitedInWorker == proc = "exited" /\ sent[Len(sent)].by = "worker"

\* C29: when the worker's sendMessage for a Fatal message gets a response, on an
\* async logger, the process terminates in that step, before wg.Done: the counter
\* stays above zero, the messages in the channel are not handed to the transport
\* and a Close call waiting for the drain has not returned, and nothing changes
\* any more.
C29_LostBehindFatal ==
  /\ [][(wpc = "send" /\ wpc' # "send" /\ calls[wmsg].level = Fatal
           /\ ~sent'[Len(sent')].out.err)
          => (proc' = "exited" /\ wg' = wg /\ wg >= 1)]_vars
  /\ [](ExitedInWorker =>
          /\ wg >= 1 /\ wpc = "done"
          /\ \A i \in QueueIds : i \notin SentIds
          /\ \A t \in Threads : pc[t] = "c_wait" => ~WaitDone)
  /\ [][proc = "exited" => UNCHANGED vars]_vars

\* a message is queued behind the Fatal message and a Close waits for the drain
C29_Witness ==
  /\ ExitedInWorker /\ msgQueue # <<>>
  /\ \E t \in Threads : pc[t] = "c_wait"

\* C30: on an async logger the WaitGroup counter is the number of messages in the
\* channel, plus one for a message the worker has received and not marked done,
\* plus one for a log call that has incremented it and not completed its send; it
\* is never negative; no log call is between increment and send while a Close is
\* in wg.Wait; and the counter is zero in the step in which wg.Wait returns.
C30_CounterInvariant ==
  /\ [](config.Async =>
          /\ wg >= 0
          /\ wg = Len(msgQueue) + (IF wpc \in {"send", "done"} THEN 1 ELSE 0)
                  + Cardinality({t \in Threads : pc[t] = "enqueue"})
          /\ ~\E t, u \in Threads : pc[t] = "enqueue" /\ pc[u] = "c_wait")
  /\ [][\A t \in Threads : (pc[t] = "c_wait" /\ pc'[t] = "idle") => (wg = 0 /\ wg' = 0)]_vars

\* all three terms at once
C30_Witness ==
  /\ config.Async /\ wg = 2 /\ wpc = "done"
  /\ \E t \in Threads : pc[t] = "enqueue"

====
